---- MODULE Spec2Model ----
(***************************************************************************)
(* Model of the Chapa payment-gateway client (src/chapa/api.py): the       *)
(* client object, its request dispatcher send_request, the response        *)
(* adapter (_construct_request / convert_response) and the two public      *)
(* operations initialize and verify.                                       *)
(*                                                                         *)
(* Python values are tagged records: [k |-> "none"], [k |-> "int", v],     *)
(* [k |-> "str", v] (v a sequence of one-character strings),               *)
(* [k |-> "float", ...], [k |-> "list", v] (v a sequence),                 *)
(* [k |-> "dict", v] (v a function on its keys) and [k |-> "obj", v]       *)
(* (a Response instance, v its __dict__).                                  *)
(***************************************************************************)
EXTENDS Integers, Sequences, FiniteSets, TLC

VARIABLES
    _key,             \* self._key
    base_url,         \* self.base_url
    api_version,      \* self.api_version
    response_format,  \* self.response_format
    headers,          \* self.headers
    call,             \* the last public call: operation, arguments, headers before it
    sent,             \* the HTTP requests issued during the last call
    outcome           \* how the last call ended: exception, message, returned value

vars == <<_key, base_url, api_version, response_format, headers, call, sent, outcome>>

(***************************************************************************)
(* Python values                                                           *)
(***************************************************************************)
PyNone == [k |-> "none"]
PyInt(n) == [k |-> "int", v |-> n]
PyStr(s) == [k |-> "str", v |-> s]
PyList(s) == [k |-> "list", v |-> s]
PyDict(f) == [k |-> "dict", v |-> f]
\* a float, written 0.d1d2...dn * 10^decpt with d1 and dn non-zero (digs empty: zero)
PyFloat(neg, digs, decpt) == [k |-> "float", neg |-> neg, digs |-> digs, decpt |-> decpt]

EmptyDict == [x \in {} |-> PyNone]

\* isinstance(x, dict)
IsDict(x) == x.k = "dict"

\* x == None
IsNone(x) == x.k = "none"

\* isinstance(x, int)
IsInt(x) == x.k = "int"

Digits == {"0", "1", "2", "3", "4", "5", "6", "7", "8", "9"}

\* a finite set of strings as a sequence, in some fixed order (a dict's key order)
RECURSIVE SetToSeq(_)
SetToSeq(S) ==
    IF S = {} THEN << >>
    ELSE LET x == CHOOSE y \in S : TRUE IN <<x>> \o SetToSeq(S \ {x})

(***************************************************************************)
(* The client                                                              *)
(***************************************************************************)
\* f'Bearer {self._key}'
Bearer(key) == <<"B", "e", "a", "r", "e", "r", " ">> \o key

\* Chapa.allowed_methods
allowed_methods_withGet == {"post", "put", "get"}
allowed_methods == {"post", "put"}

\* the default arguments of Chapa.__init__
DefaultBaseUrl == "https://api.chapa.co"
DefaultApiVersion == "v1"
DefaultResponseFormat == "json"

\* self.headers as __init__ leaves it
InitialHeaders(key) == [h \in {"Authorization"} |-> Bearer(key)]

\* an f-string URL: its "/"-separated parts
Url(base, version, tail) == <<base, version>> \o tail

(***************************************************************************)
(* dict.update(other) on self.headers: [exc, msg, h], h the dictionary     *)
(* afterwards (entries are inserted one by one, so an error part-way       *)
(* leaves the earlier ones in place)                                       *)
(***************************************************************************)
Insert(h, name, value) ==
    [x \in DOMAIN h \cup {name} |-> IF x = name THEN value ELSE h[x]]

RECURSIVE UpdateFromSeq(_, _, _)
UpdateFromSeq(h, elems, i) ==
    IF i > Len(elems) THEN [exc |-> "none", msg |-> "", h |-> h]
    ELSE IF Len(elems[i]) # 2
         THEN [exc |-> "ValueError",
               msg |-> "dictionary update sequence element has length other than 2",
               h |-> h]
         ELSE UpdateFromSeq(Insert(h, elems[i][1], elems[i][2]), elems, i + 1)

DictUpdate(h, other) ==
    CASE other.k = "dict" ->
            [exc |-> "none", msg |-> "",
             h |-> [x \in DOMAIN h \cup DOMAIN other.v |->
                        IF x \in DOMAIN other.v THEN other.v[x] ELSE h[x]]]
      [] other.k = "list" -> UpdateFromSeq(h, other.v, 1)
      [] other.k = "str" ->
            \* a str iterates as its characters, each a str of length 1
            UpdateFromSeq(h, [i \in 1..Len(other.v) |-> <<other.v[i]>>], 1)
      [] OTHER ->
            \* None, int: not iterable
            [exc |-> "TypeError", msg |-> "object is not iterable", h |-> h]

(***************************************************************************)
(* Chapa.send_request: [exc, msg, h, sent, ret] from self.headers and the  *)
(* arguments; body is what the server answers if a request is issued       *)
(***************************************************************************)
Raise(exc, msg, h) ==
    [exc |-> exc, msg |-> msg, h |-> h, sent |-> << >>, ret |-> PyNone]

\* line 62: the headers check tests data, not headers
HeadersCheckFails(data, hdrs) == ~IsNone(hdrs) /\ ~IsDict(data)

send_request(h, url, method, data, params, hdrs, body) ==
    IF method \notin allowed_methods
    THEN Raise("ValueError", "Please provide a valid method", h)
    ELSE IF ~IsNone(params) /\ ~IsDict(params)
    THEN Raise("ValueError", "params must be a dict", h)
    ELSE IF ~IsNone(data) /\ ~IsDict(data)
    THEN Raise("ValueError", "data must be a dict", h)
    ELSE IF HeadersCheckFails(data, hdrs)
    THEN Raise("ValueError", "headers must be a dict", h)
    ELSE LET u == DictUpdate(h, hdrs) IN
         IF u.exc # "none" THEN Raise(u.exc, u.msg, u.h)
         ELSE LET req == [method |-> method, url |-> url, data |-> data,
                          headers |-> u.h] IN
              IF body.k = "text"
              THEN \* response.json() on a body that is not JSON
                   [exc |-> "JSONDecodeError", msg |-> "not JSON", h |-> u.h,
                    sent |-> <<req>>, ret |-> PyNone]
              ELSE [exc |-> "none", msg |-> "", h |-> u.h,
                    sent |-> <<req>>, ret |-> body]

(***************************************************************************)
(* The response adapter: json.dumps writes the value as JSON text (here    *)
(* its tokens), json.loads reads the text back and calls object_hook on    *)
(* every object it decodes                                                 *)
(***************************************************************************)
Tok(t) == [t |-> t, v |-> PyNone]
ScalarTok(x) == [t |-> "scalar", v |-> x]
KeyTok(name) == [t |-> "key", v |-> name]

\* Response.__init__: self.__dict__.update(dict1) on a new instance
Response(dict1) == [k |-> "obj", v |-> dict1]

RECURSIVE Dumps(_)
DumpsItems(v, i) ==
    \* the tokens of list element i, after its separator
    (IF i > 1 THEN <<Tok(",")>> ELSE << >>) \o Dumps(v[i])
DumpsMember(d, keys, i) ==
    (IF i > 1 THEN <<Tok(",")>> ELSE << >>)
        \o <<KeyTok(keys[i]), Tok(":")>> \o Dumps(d[keys[i]])
RECURSIVE Concat(_, _)
Concat(parts, i) ==
    IF i > Len(parts) THEN << >> ELSE parts[i] \o Concat(parts, i + 1)
Dumps(x) ==
    CASE x.k = "list" ->
            <<Tok("[")>> \o Concat([i \in 1..Len(x.v) |-> DumpsItems(x.v, i)], 1)
                \o <<Tok("]")>>
      [] x.k = "dict" ->
            LET keys == SetToSeq(DOMAIN x.v) IN
            <<Tok("{")>> \o Concat([i \in 1..Len(keys) |-> DumpsMember(x.v, keys, i)], 1)
                \o <<Tok("}")>>
      [] OTHER -> <<ScalarTok(x)>>

\* object_hook applied to a decoded object
ApplyHook(hook, d) == IF hook = "Response" THEN Response(d) ELSE PyDict(d)

\* the decoder: [val, next] for the value that starts at token i
RECURSIVE ParseValue(_, _, _)
RECURSIVE ParseItems(_, _, _)
RECURSIVE ParseMembers(_, _, _)
ParseItems(toks, i, hook) ==
    IF toks[i].t = "]" THEN [val |-> << >>, next |-> i + 1]
    ELSE LET e == ParseValue(toks, i, hook) IN
         IF toks[e.next].t = ","
         THEN LET r == ParseItems(toks, e.next + 1, hook) IN
              [val |-> <<e.val>> \o r.val, next |-> r.next]
         ELSE [val |-> <<e.val>>, next |-> e.next + 1]
ParseMembers(toks, i, hook) ==
    IF toks[i].t = "}" THEN [val |-> EmptyDict, next |-> i + 1]
    ELSE LET name == toks[i].v
             e == ParseValue(toks, i + 2, hook) IN
         IF toks[e.next].t = ","
         THEN LET r == ParseMembers(toks, e.next + 1, hook) IN
              \* a repeated name keeps its last value
              [val |-> [x \in DOMAIN r.val \cup {name} |->
                            IF x \in DOMAIN r.val THEN r.val[x] ELSE e.val],
               next |-> r.next]
         ELSE [val |-> [x \in {name} |-> e.val], next |-> e.next + 1]
ParseValue(toks, i, hook) ==
    CASE toks[i].t = "[" ->
            LET r == ParseItems(toks, i + 1, hook) IN
            [val |-> PyList(r.val), next |-> r.next]
      [] toks[i].t = "{" ->
            LET r == ParseMembers(toks, i + 1, hook) IN
            [val |-> ApplyHook(hook, r.val), next |-> r.next]
      [] OTHER -> [val |-> toks[i].v, next |-> i + 1]

\* json.loads(text, object_hook=hook)
Loads(toks, hook) == ParseValue(toks, 1, hook).val

\* Chapa.convert_response
convert_response_shallow(response) ==
    IF ~IsDict(response) THEN response ELSE Response(response.v)
convert_response(response) ==
    IF ~IsDict(response) THEN response
    ELSE Loads(Dumps(response), "Response")

\* Chapa._construct_request
_construct_request(h, fmt, url, method, data, params, hdrs, body) ==
    LET res == send_request(h, url, method, data, params, hdrs, body) IN
    IF res.exc # "none" THEN res
    ELSE IF fmt = "obj" /\ IsDict(res.ret)
         THEN [res EXCEPT !.ret = convert_response(res.ret)]
         ELSE res

(***************************************************************************)
(* initialize's amount check (lines 126-133)                               *)
(***************************************************************************)
RECURSIVE NatToChars(_)
NatToChars(n) ==
    LET d == <<"0", "1", "2", "3", "4", "5", "6", "7", "8", "9">>[(n % 10) + 1] IN
    IF n < 10 THEN <<d>> ELSE NatToChars(n \div 10) \o <<d>>

Zeros(n) == [i \in 1..n |-> "0"]

\* repr of a float: positional for 1e-4 <= |x| < 1e16, else with an exponent
FloatStr(f) ==
    LET n == Len(f.digs)
        sign == IF f.neg THEN <<"-">> ELSE << >>
        e == f.decpt - 1
        ee == NatToChars(IF e < 0 THEN -e ELSE e)
    IN  IF n = 0 THEN sign \o <<"0", ".", "0">>
        ELSE IF f.decpt > 16 \/ f.decpt <= -4
        THEN sign \o <<f.digs[1]>>
                  \o (IF n > 1 THEN <<".">> \o SubSeq(f.digs, 2, n) ELSE << >>)
                  \o <<"e", IF e < 0 THEN "-" ELSE "+">>
                  \o (IF Len(ee) < 2 THEN <<"0">> ELSE << >>) \o ee
        ELSE IF f.decpt <= 0
        THEN sign \o <<"0", ".">> \o Zeros(-f.decpt) \o f.digs
        ELSE IF f.decpt >= n
        THEN sign \o f.digs \o Zeros(f.decpt - n) \o <<".", "0">>
        ELSE sign \o SubSeq(f.digs, 1, f.decpt) \o <<".">> \o SubSeq(f.digs, f.decpt + 1, n)

\* str(amount), for an amount that is not an int
Str(x) ==
    CASE x.k = "str" -> x.v
      [] x.k = "float" -> FloatStr(x)
      [] OTHER -> <<"N", "o", "n", "e">>

\* s.replace('.', '', 1)
RemoveFirstDot(s) ==
    IF \E i \in 1..Len(s) : s[i] = "."
    THEN LET i == CHOOSE j \in 1..Len(s) :
                      s[j] = "." /\ \A m \in 1..(j - 1) : s[m] # "."
         IN SubSeq(s, 1, i - 1) \o SubSeq(s, i + 1, Len(s))
    ELSE s

\* s.isdigit()
IsDigit(s) == Len(s) > 0 /\ \A i \in 1..Len(s) : s[i] \in Digits

\* float(amount) > 0, for an amount whose str is digits around at most one '.'
FloatPositive(x) ==
    IF x.k = "float" THEN ~x.neg /\ Len(x.digs) > 0
    ELSE \E i \in 1..Len(Str(x)) : Str(x)[i] \in Digits \ {"0"}

\* the amount passes lines 126-133
AmountAccepted(amount) ==
    IF ~IsInt(amount)
    THEN IsDigit(RemoveFirstDot(Str(amount))) /\ FloatPositive(amount)
    ELSE ~(amount.v < 0)

(***************************************************************************)
(* initialize's email check (line 137):                                    *)
(* re.match(r"[^@]+@[^@]+\.[^@]+", email), a match that starts at the      *)
(* first character and may end before the last                             *)
(***************************************************************************)
NoAt(s, a, b) == a <= b /\ \A i \in a..b : s[i] # "@"

EmailMatches(email) ==
    \E i \in 1..Len(email), j \in 1..Len(email), m \in 1..Len(email) :
        /\ NoAt(email, 1, i - 1)
        /\ email[i] = "@"
        /\ NoAt(email, i + 1, j - 1)
        /\ email[j] = "."
        /\ NoAt(email, j + 1, m)

(***************************************************************************)
(* Chapa.initialize and Chapa.verify                                       *)
(***************************************************************************)
\* bool(x) of an optional str or dict argument
Truthy(x) ==
    CASE x.k = "none" -> FALSE
      [] x.k = "str" -> Len(x.v) > 0
      [] x.k = "dict" -> DOMAIN x.v # {}
      [] OTHER -> TRUE

DefaultCurrency == PyStr(<<"E", "T", "B">>)

\* the customization[...] fields of lines 145-151
CustomKey(n) ==
    CASE n = "title" -> "customization[title]"
      [] n = "description" -> "customization[description]"
      [] OTHER -> "customization[logo]"

CustomizationFields(customization) ==
    IF Truthy(customization)
    THEN LET names == DOMAIN customization.v \cap {"title", "description", "logo"} IN
         [x \in {CustomKey(n) : n \in names} |->
              customization.v[CHOOSE n \in names : CustomKey(n) = x]]
    ELSE EmptyDict

\* the request body of lines 119-151
InitializeData(email, amount, first_name, last_name, tx_ref, currency, callback_url, customization) ==
    LET base == [x \in {"first_name", "last_name", "tx_ref", "currency", "amount", "email"}
                    |-> CASE x = "first_name" -> first_name
                          [] x = "last_name" -> last_name
                          [] x = "tx_ref" -> tx_ref
                          [] x = "currency" -> currency
                          [] x = "amount" -> amount
                          [] OTHER -> email]
        cb == IF Truthy(callback_url) THEN Insert(base, "callback_url", callback_url)
              ELSE base
        cu == CustomizationFields(customization)
    IN  [x \in DOMAIN cb \cup DOMAIN cu |-> IF x \in DOMAIN cu THEN cu[x] ELSE cb[x]]

initialize(h, fmt, base, version, email, amount, first_name, last_name, tx_ref, currency, callback_url, customization, hdrs, body) ==
    IF ~AmountAccepted(amount) THEN Raise("ValueError", "invalid amount", h)
    ELSE IF ~EmailMatches(email.v) THEN Raise("ValueError", "invalid email", h)
    ELSE _construct_request(h, fmt,
             Url(base, version, <<"transaction", "initialize">>), "post",
             PyDict(InitializeData(email, amount, first_name, last_name, tx_ref,
                                   currency, callback_url, customization)),
             PyNone, hdrs, body)

verify(h, fmt, base, version, transaction, hdrs, body) ==
    _construct_request(h, fmt,
        Url(base, version, <<"transaction", "verify", transaction>>), "get",
        PyNone, PyNone, hdrs, body)

(***************************************************************************)
(* The inputs the client is built and called with                          *)
(***************************************************************************)
\* the arguments the client is constructed with
Configs ==
    {[secret |-> <<"s", "k">>, base_ur |-> DefaultBaseUrl,
      api_version |-> DefaultApiVersion, response_format |-> DefaultResponseFormat],
     [secret |-> <<"t">>, base_ur |-> DefaultBaseUrl,
      api_version |-> DefaultApiVersion, response_format |-> "obj"],
     [secret |-> <<"t">>, base_ur |-> "http://localhost:8000", api_version |-> "v2",
      response_format |-> "obj"]}

Methods == {"post", "put", "get", "POST"}

HeaderDicts ==
    {EmptyDict,
     [x \in {"X-Trace"} |-> <<"1">>],
     [x \in {"Authorization"} |-> <<"e", "v", "i", "l">>]}

\* a headers argument: absent, a mapping, or something else
HeaderArgs ==
    {PyNone, PyInt(5), PyList(<< <<"X-Trace", <<"1">> >>, <<"c">> >>)}
        \cup {PyDict(d) : d \in HeaderDicts}

DataArgs == {PyNone, PyDict([x \in {"amount"} |-> PyInt(1)]), PyList(<< >>)}

ParamArgs == {PyNone, PyDict(EmptyDict), PyInt(5)}

Urls == {<<"https://example.org", "ping">>}

ValidEmail == PyStr(<<"a", "@", "b", ".", "c", "o", "m">>)

Emails ==
    {ValidEmail,
     PyStr(<<"n", "o", "t", "-", "a", "n", "-", "e", "m", "a", "i", "l">>),
     PyStr(<<"a", "@", "b", ".", "c", "@", "d">>),
     PyStr(<<"a", " ", "b", "@", "c", ".", "d">>),
     PyStr(<<"a", "@", "b">>),
     PyStr(<<"a", "@", "b", ".">>),
     PyStr(<<"a", "@", ".", "b", ".", "c">>),
     PyStr(<<"@", "b", ".", "c">>),
     PyStr(<<"a", "@", "@", "b", ".", "c">>),
     PyStr(<<"a", "b", ".", "c">>),
     PyStr(<< >>)}

Amounts ==
    {PyInt(100), PyInt(0), PyInt(-1),
     PyStr(<<"1", "2", ".", "5">>), PyStr(<<"a", "b", "c">>), PyStr(<<"0">>),
     PyStr(<<"-", "1">>), PyStr(<<"1", ".", "2", ".", "3">>), PyStr(<<".">>),
     PyStr(<<"1", "e", "5">>), PyStr(<<".", "5">>),
     PyFloat(FALSE, <<"1", "2", "5">>, 2),     \* 12.5
     PyFloat(FALSE, << >>, 0),                 \* 0.0
     PyFloat(TRUE, <<"1", "5">>, 1),           \* -1.5
     PyFloat(FALSE, <<"1">>, 17),              \* 1e16
     PyFloat(FALSE, <<"1">>, 16),              \* 1e15
     PyFloat(FALSE, <<"1">>, -4),              \* 0.00001
     PyFloat(FALSE, <<"1">>, -3),              \* 0.0001
     PyNone}

FirstNames == {PyStr(<<"A">>)}
LastNames == {PyStr(<<"B">>)}
TxRefs == {PyStr(<<"t", "x", "1">>)}
Transactions == {"tx1", "tx2"}

\* currency, callback_url, customization as initialize is called with them
\* (currency None: the argument is left out)
NoExtras == [currency |-> PyNone, callback_url |-> PyNone, customization |-> PyNone]
Extras ==
    {NoExtras,
     [currency |-> PyStr(<<"U", "S", "D">>), callback_url |-> PyStr(<<"c", "b">>),
      customization |-> PyDict([x \in {"title", "logo"} |-> PyStr(<<"T">>)])],
     [currency |-> PyNone, callback_url |-> PyStr(<< >>),
      customization |-> PyDict(EmptyDict)]}

\* decoded response bodies: scalars, lists and mappings nested in one another
\* to depth MaxDepth
MaxDepth == 3
Ok == PyStr(<<"o", "k">>)
JsonScalars == {PyNone, PyInt(1), Ok}
Obj2(x, y) == PyDict([n \in {"status", "data"} |-> IF n = "status" THEN x ELSE y])
RECURSIVE JsonOfDepth(_)
JsonOfDepth(d) ==
    IF d = 0 THEN JsonScalars \cup {PyList(<< >>), PyDict(EmptyDict)}
    ELSE {Obj2(Ok, x) : x \in JsonOfDepth(d - 1)}
             \cup {PyList(<<x, PyInt(1)>>) : x \in JsonOfDepth(d - 1)}
JsonBodies == UNION {JsonOfDepth(d) : d \in 0..MaxDepth}

\* a response body that is not JSON
NotJson == [k |-> "text"]

Bodies == JsonBodies \cup {NotJson}

\* the two kinds of answer, for the calls whose answer is not what is looked at
SomeBodies == {Obj2(Ok, PyInt(1)), NotJson}

(***************************************************************************)
(* The state machine: construction, then any sequence of public calls      *)
(***************************************************************************)
NoCall ==
    [op |-> "none", url |-> << >>, method |-> "", data |-> PyNone, params |-> PyNone,
     hdrs |-> PyNone, body |-> PyNone, before |-> EmptyDict, email |-> PyNone,
     amount |-> PyNone, first_name |-> PyNone, last_name |-> PyNone,
     tx_ref |-> PyNone, extras |-> NoExtras, transaction |-> ""]

\* Chapa.__init__ (response_format is 'json' or 'obj', or no client is made)
Init ==
    \E c \in Configs :
        /\ c.response_format \in {"json", "obj"}
        /\ _key = c.secret
        /\ base_url = c.base_ur
        /\ api_version = c.api_version
        /\ response_format = c.response_format
        /\ headers = InitialHeaders(c.secret)
        /\ call = NoCall
        /\ sent = << >>
        /\ outcome = [exc |-> "none", msg |-> "", ret |-> PyNone]

\* what a call leaves behind
Finish(r, c) ==
    /\ headers' = r.h
    /\ sent' = r.sent
    /\ outcome' = [exc |-> r.exc, msg |-> r.msg, ret |-> r.ret]
    /\ call' = [c EXCEPT !.before = headers,
                         !.body = IF r.sent = << >> THEN PyNone ELSE c.body]
    /\ UNCHANGED <<_key, base_url, api_version, response_format>>

\* a call of send_request
SendRequestWith(urls, methods, datas, paramss, hdrss, bodies) ==
    \E url \in urls, method \in methods, data \in datas, params \in paramss,
       hdrs \in hdrss, body \in bodies :
        Finish(send_request(headers, url, method, data, params, hdrs, body),
               [NoCall EXCEPT !.op = "send_request", !.url = url, !.method = method,
                              !.data = data, !.params = params, !.hdrs = hdrs,
                              !.body = body])

\* a call of initialize
InitializeWith(emails, amounts, extras, hdrss, bodies) ==
    \E email \in emails, amount \in amounts, first_name \in FirstNames,
       last_name \in LastNames, tx_ref \in TxRefs, x \in extras,
       hdrs \in hdrss, body \in bodies :
        Finish(initialize(headers, response_format, base_url, api_version, email,
                          amount, first_name, last_name, tx_ref,
                          IF IsNone(x.currency) THEN DefaultCurrency ELSE x.currency,
                          x.callback_url, x.customization, hdrs, body),
               [NoCall EXCEPT !.op = "initialize", !.email = email, !.amount = amount,
                              !.first_name = first_name, !.last_name = last_name,
                              !.tx_ref = tx_ref, !.extras = x, !.hdrs = hdrs,
                              !.body = body])

\* a call of verify
VerifyWith(transactions, hdrss, bodies) ==
    \E transaction \in transactions, hdrs \in hdrss, body \in bodies :
        Finish(verify(headers, response_format, base_url, api_version, transaction,
                      hdrs, body),
               [NoCall EXCEPT !.op = "verify", !.transaction = transaction,
                              !.hdrs = hdrs, !.body = body])

\* the client under calls of all three operations
SendRequest == SendRequestWith(Urls, Methods, DataArgs, ParamArgs, HeaderArgs, SomeBodies)

Initialize ==
    InitializeWith({ValidEmail, PyStr(<<"a", "@", "b">>)},
                   {PyInt(100), PyInt(-1), PyStr(<<"1", "2", ".", "5">>)},
                   Extras, HeaderArgs, SomeBodies)

Verify == VerifyWith(Transactions, HeaderArgs, SomeBodies)

Next == SendRequest \/ Initialize \/ Verify

Spec == Init /\ [][Next]_vars

\* initialize over the emails and amounts, the other arguments fixed
InitializeChecks ==
    InitializeWith(Emails, Amounts, {NoExtras}, {PyDict(EmptyDict)}, SomeBodies)

NextChecks == InitializeChecks

SpecChecks == Init /\ [][NextChecks]_vars

\* initialize and verify over the response bodies
InitializeBodies ==
    InitializeWith({ValidEmail}, {PyInt(100)}, {NoExtras},
                   {PyNone, PyDict(EmptyDict)}, Bodies)

VerifyBodies == VerifyWith({"tx1"}, {PyDict(EmptyDict)}, Bodies)

NextBodies == InitializeBodies \/ VerifyBodies

SpecBodies == Init /\ [][NextBodies]_vars

(***************************************************************************)
(* The properties                                                          *)
(***************************************************************************)
\* the object tree of a decoded body: every mapping an attribute-addressable
\* node with the same keys, lists and scalars kept
RECURSIVE ObjTree(_)
ObjTree(x) ==
    CASE x.k = "dict" -> [k |-> "obj", v |-> [n \in DOMAIN x.v |-> ObjTree(x.v[n])]]
      [] x.k = "list" -> PyList([i \in 1..Len(x.v) |-> ObjTree(x.v[i])])
      [] OTHER -> x

\* the response adapter as the specification words it
Adapted(fmt, body) ==
    IF fmt = "json" \/ ~IsDict(body) THEN body ELSE ObjTree(body)

IsJson(body) == body.k # "text"

\* the body initialize is to send when only the five required arguments are given
RequiredFields(c) ==
    [x \in {"amount", "email", "first_name", "last_name", "tx_ref", "currency"} |->
        CASE x = "amount" -> c.amount
          [] x = "email" -> c.email
          [] x = "first_name" -> c.first_name
          [] x = "last_name" -> c.last_name
          [] x = "tx_ref" -> c.tx_ref
          [] OTHER -> PyStr(<<"E", "T", "B">>)]

\* C1: on a client built with the defaults, initialize with a valid email, a
\* valid amount and no headers, callback_url or customization issues exactly
\* one POST to https://api.chapa.co/v1/transaction/initialize with the header
\* Authorization: Bearer S and the body amount, email, first_name, last_name,
\* tx_ref, currency=ETB, and returns without raising
C1_InitializeDefaultsPosts ==
    (/\ call.op = "initialize"
     /\ base_url = "https://api.chapa.co" /\ api_version = "v1"
     /\ response_format = "json"
     /\ call.email = ValidEmail /\ call.amount = PyInt(100)
     /\ IsNone(call.hdrs)
     /\ IsNone(call.extras.currency) /\ IsNone(call.extras.callback_url)
     /\ IsNone(call.extras.customization))
    => /\ Len(sent) = 1
       /\ sent[1].method = "post"
       /\ sent[1].url = <<"https://api.chapa.co", "v1", "transaction", "initialize">>
       /\ "Authorization" \in DOMAIN sent[1].headers
       /\ sent[1].headers["Authorization"] = Bearer(_key)
       /\ IsDict(sent[1].data)
       /\ sent[1].data.v = RequiredFields(call)
       /\ (IsJson(call.body) => outcome.exc = "none")

\* C2: verify(T, headers), headers absent or a mapping, issues exactly one GET
\* to {base_url}/{api_version}/transaction/verify/T with no body and returns
\* the adapted response
C2_VerifyGets ==
    (call.op = "verify" /\ (IsNone(call.hdrs) \/ IsDict(call.hdrs)))
    => /\ Len(sent) = 1
       /\ sent[1].method = "get"
       /\ sent[1].url = <<base_url, api_version, "transaction", "verify", call.transaction>>
       /\ IsNone(sent[1].data)
       /\ (IsJson(call.body) =>
              outcome.exc = "none" /\ outcome.ret = Adapted(response_format, call.body))

\* C3: in every state the client's headers hold Authorization: Bearer S, and
\* every request sent carries that value
C3_AuthorizationIsBearerSecret ==
    /\ "Authorization" \in DOMAIN headers
    /\ headers["Authorization"] = Bearer(_key)
    /\ \A i \in 1..Len(sent) :
          /\ "Authorization" \in DOMAIN sent[i].headers
          /\ sent[i].headers["Authorization"] = Bearer(_key)

\* C4: a call made with extra headers H leaves the client's stored headers as
\* they were before it
C4_CallsLeaveHeadersAlone ==
    (call.op # "none" /\ IsDict(call.hdrs)) => headers = call.before

\* C5: a call that ends in a validation error (a ValueError) has issued no
\* request and has left the client's headers as they were
C5_ValidationErrorsLeaveNoEffect ==
    (call.op # "none" /\ outcome.exc = "ValueError")
    => sent = << >> /\ headers = call.before

\* C6: send_request (method and params passing their checks) fails with a
\* ValueError whenever headers is given and is not a mapping - 'headers must
\* be a dict', or 'data must be a dict' when data is no mapping either - and
\* does not raise 'headers must be a dict' when headers is a mapping
C6_HeadersMustBeADict ==
    (/\ call.op = "send_request"
     /\ call.method \in {"post", "put"}
     /\ (IsNone(call.params) \/ IsDict(call.params)))
    => /\ (~IsNone(call.hdrs) /\ ~IsDict(call.hdrs))
            => /\ outcome.exc = "ValueError"
               /\ \/ outcome.msg = "headers must be a dict"
                  \/ /\ ~IsNone(call.data) /\ ~IsDict(call.data)
                     /\ outcome.msg = "data must be a dict"
       /\ IsDict(call.hdrs) => outcome.msg # "headers must be a dict"

\* the amounts C7 says are accepted: an int >= 0, a float > 0, or a string of
\* digits around at most one '.' whose value is > 0
ClaimedAmount(a) ==
    CASE a.k = "int" -> a.v >= 0
      [] a.k = "float" -> ~a.neg /\ Len(a.digs) > 0
      [] a.k = "str" ->
            /\ \E i \in 1..Len(a.v) : a.v[i] \in Digits \ {"0"}
            /\ \A i \in 1..Len(a.v) : a.v[i] \in Digits \cup {"."}
            /\ Cardinality({i \in 1..Len(a.v) : a.v[i] = "."}) <= 1
      [] OTHER -> FALSE

\* C7: initialize accepts exactly the ints >= 0 and the floats and numeric
\* strings > 0; any other amount fails with 'invalid amount', no request sent
C7_AmountCheck ==
    call.op = "initialize"
    => IF ClaimedAmount(call.amount)
       THEN outcome.msg # "invalid amount"
       ELSE /\ outcome.exc = "ValueError" /\ outcome.msg = "invalid amount"
            /\ sent = << >>

\* C8: send_request raises the invalid-method error for every method outside
\* {post, put}, whatever params and data are, and for an allowed method an
\* invalid-argument error when params or data is given and is not a mapping;
\* no request is sent in either case
C8_DispatcherChecks ==
    call.op = "send_request"
    => /\ call.method \notin {"post", "put"}
            => /\ outcome.exc = "ValueError"
               /\ outcome.msg = "Please provide a valid method"
               /\ sent = << >>
       /\ (/\ call.method \in {"post", "put"}
           /\ \/ ~IsNone(call.params) /\ ~IsDict(call.params)
              \/ ~IsNone(call.data) /\ ~IsDict(call.data))
            => /\ outcome.exc = "ValueError"
               /\ outcome.msg \in {"params must be a dict", "data must be a dict"}
               /\ sent = << >>

\* a send_request with method 'get' and a data that is no mapping was turned
\* down for its method
C8_Witness ==
    /\ call.op = "send_request"
    /\ call.method = "get"
    /\ call.data.k = "list"
    /\ call.params.k = "int"
    /\ outcome.msg = "Please provide a valid method"
    /\ sent = << >>

\* C9: what initialize or verify returns is the decoded body unchanged when
\* the format is 'json' or the body is no mapping, and otherwise the object
\* tree of the body
C9_ReturnsAdaptedBody ==
    (call.op \in {"initialize", "verify"} /\ outcome.exc = "none")
    => outcome.ret = Adapted(response_format, call.body)

\* initialize returned, under format 'obj', a body with a mapping inside a
\* list inside a mapping
C9_Witness ==
    /\ call.op = "initialize"
    /\ outcome.exc = "none"
    /\ response_format = "obj"
    /\ call.body = Obj2(Ok, PyList(<<Obj2(Ok, PyInt(1)), PyInt(1)>>))
    /\ outcome.ret.k = "obj"
    /\ outcome.ret.v["data"].v[1].k = "obj"
    /\ DOMAIN outcome.ret.v["data"].v[1].v = {"status", "data"}

\* the emails C10 says are accepted: one '@', a non-empty local part before
\* it, and after it a domain with a '.' that has text on both sides
ClaimedEmail(e) ==
    /\ Cardinality({i \in 1..Len(e) : e[i] = "@"}) = 1
    /\ \E i \in 2..Len(e) :
          /\ e[i] = "@"
          /\ \E j \in (i + 2)..(Len(e) - 1) : e[j] = "."

\* C10: initialize fails with 'invalid email', no request sent, for every
\* email not of the form local-part@domain-with-a-dot, and goes on to
\* dispatch for every email of that form
C10_EmailCheck ==
    (call.op = "initialize" /\ outcome.msg # "invalid amount")
    => IF ClaimedEmail(call.email.v)
       THEN outcome.msg # "invalid email" /\ Len(sent) = 1
       ELSE /\ outcome.exc = "ValueError" /\ outcome.msg = "invalid email"
            /\ sent = << >>

====
